---------------------------- MODULE Spec2Model ----------------------------
(***************************************************************************)
(* A model of the eToro scraper: the three page extractors                 *)
(* (extractors/stock_parser.py, investor_parser.py, post_parser.py), their *)
(* text heuristics, and the orchestrator of main.py (load_input_urls,      *)
(* normalize_record, process_url, main).                                   *)
(*                                                                         *)
(* Strings are sequences of lexemes (one-character strings, or a word that *)
(* no pattern of the program looks inside).  A Python value that may be    *)
(* None is a sequence of length 0 (None) or 1 (the value).  A page is the  *)
(* parsed document: its elements in document order, each with its parent,  *)
(* tag, class attribute, attributes and leading text.                      *)
(***************************************************************************)
EXTENDS Integers, Sequences, FiniteSets, TLC

VARIABLES
    inputs,        \* main: the entries of the input JSON array
    urls,          \* main: the list load_input_urls returned
    idx,           \* main: position of the loop over urls (1-based)
    pc,            \* the step the program is at
    html,          \* main: what fetch_page returned for the current URL
    page_records,  \* process_url: its local all_records
    all_records,   \* main: its all_records
    raised,        \* the extractor runs that raised, as <<idx, extractor>>
    fetched,       \* what fetch_page returned, per position of urls
    exported,      \* the record lists handed to export_to_json / export_to_csv
    arg,           \* the argument(s) of the function a unit specification runs
    result         \* the value that function returned

vars == <<inputs, urls, idx, pc, html, page_records, all_records, raised,
          fetched, exported, arg, result>>

-----------------------------------------------------------------------------
(* Optional values *)

None == <<>>

Some(x) == <<x>>

\* Python truthiness of an optional string: not None and not "".
Truthy(o) == o # None /\ o[1] # <<>>

\* Python's `a or b` on optional strings.
Or(a, b) == IF Truthy(a) THEN a ELSE b

-----------------------------------------------------------------------------
(* Strings *)

Digits == {"0", "1", "2", "3", "4", "5", "6", "7", "8", "9"}

IsSpace(c) == c = " "

IsDigit(c) == c \in Digits

DigitValue(c) ==
    CASE c = "0" -> 0 [] c = "1" -> 1 [] c = "2" -> 2 [] c = "3" -> 3
      [] c = "4" -> 4 [] c = "5" -> 5 [] c = "6" -> 6 [] c = "7" -> 7
      [] c = "8" -> 8 [] c = "9" -> 9

RECURSIVE LStrip(_)
LStrip(s) ==
    IF s = <<>> THEN s
    ELSE IF IsSpace(Head(s)) THEN LStrip(Tail(s)) ELSE s

RECURSIVE RStrip(_)
RStrip(s) ==
    IF s = <<>> THEN s
    ELSE IF IsSpace(s[Len(s)]) THEN RStrip(SubSeq(s, 1, Len(s) - 1)) ELSE s

\* str.strip()
Strip(s) == RStrip(LStrip(s))

\* int() of a run of decimal digits
RECURSIVE ToInt(_)
ToInt(ds) ==
    IF ds = <<>> THEN 0
    ELSE 10 * ToInt(SubSeq(ds, 1, Len(ds) - 1)) + DigitValue(ds[Len(ds)])

\* sep.join(strs)
RECURSIVE Join(_, _)
Join(strs, sep) ==
    IF strs = <<>> THEN <<>>
    ELSE IF Len(strs) = 1 THEN strs[1]
    ELSE strs[1] \o sep \o Join(Tail(strs), sep)

\* The index of the first occurrence of lexeme c in s at or after i, else 0.
RECURSIVE IndexFrom(_, _, _)
IndexFrom(s, c, i) ==
    IF i > Len(s) THEN 0
    ELSE IF s[i] = c THEN i ELSE IndexFrom(s, c, i + 1)

\* str.split(c) for a one-lexeme separator c: the pieces between occurrences.
RECURSIVE Split(_, _)
Split(s, c) ==
    LET k == IndexFrom(s, c, 1)
    IN  IF k = 0 THEN <<s>>
        ELSE <<SubSeq(s, 1, k - 1)>> \o Split(SubSeq(s, k + 1, Len(s)), c)

-----------------------------------------------------------------------------
(* The parsed document (BeautifulSoup) *)

AttrNames == {"datetime", "property", "name", "content",
              "data-etoro-user", "data-user-card"}

NoAttrs == [a \in AttrNames |-> None]

\* An element: parent is the index of its parent element (0: the document),
\* cls the set of the substrings of interest its class attribute contains,
\* text the text node at its start (<<>>: none).
Elem(parent, tag, cls, attrs, text) ==
    [parent |-> parent, tag |-> tag, cls |-> cls, attrs |-> attrs,
     text |-> text]

\* Whether element j lies strictly inside element i (0: the document).
RECURSIVE IsInside(_, _, _)
IsInside(dom, i, j) ==
    IF j = 0 THEN FALSE
    ELSE IF dom[j].parent = i THEN TRUE
    ELSE IsInside(dom, i, dom[j].parent)

Indices(dom) == [k \in 1..Len(dom) |-> k]

\* Tag.select / Tag.find_all: the matching descendants in document order.
Select(dom, i, P(_)) ==
    SelectSeq(Indices(dom), LAMBDA j : IsInside(dom, i, j) /\ P(dom[j]))

\* Tag.find: the first matching descendant, 0 (None) when there is none.
Find(dom, i, P(_)) ==
    LET m == Select(dom, i, P) IN IF m = <<>> THEN 0 ELSE m[1]

\* Python's `a or b` on elements (a Tag is always truthy).
OrElem(a, b) == IF a # 0 THEN a ELSE b

\* Tag._all_strings: the text nodes of element i and its descendants in
\* document order; with strip, each stripped and the empty ones dropped.
RECURSIVE AllStrings(_, _, _, _)
AllStrings(dom, i, j, strip) ==
    IF j > Len(dom) THEN <<>>
    ELSE LET t == IF strip THEN Strip(dom[j].text) ELSE dom[j].text
             mine == (j = i \/ IsInside(dom, i, j)) /\ t # <<>>
         IN  (IF mine THEN <<t>> ELSE <<>>) \o AllStrings(dom, i, j + 1, strip)

\* Tag.get_text(separator=sep, strip=strip)
GetText(dom, i, sep, strip) == Join(AllStrings(dom, i, i, strip), sep)

HasClass(e, s) == s \in e.cls

HasAttr(e, a) == e.attrs[a] # None

-----------------------------------------------------------------------------
(* extractors/post_parser.py *)

\* The digits the loop of _parse_likes accumulates: the first run of digits.
RECURSIVE LikesDigits(_, _)
LikesDigits(text, num) ==
    IF text = <<>> THEN num
    ELSE IF IsDigit(Head(text)) THEN LikesDigits(Tail(text), Append(num, Head(text)))
    ELSE IF num # <<>> THEN num
    ELSE LikesDigits(Tail(text), num)

_parse_likes(text) ==
    LET t == Strip(text)
        num == LikesDigits(t, <<>>)
    IN  IF t = <<>> THEN None
        ELSE IF num = <<>> THEN None
        ELSE Some(ToInt(num))

\* Lexemes of timestamps: a calendar date, a time of day, UTC offsets.
Dates == {"2025-03-22"}

Times == {"14:30:00", "00:00:00"}

ColonOffsets == {"+01:00", "+00:00"}

PlainOffsets == {"+0100"}

\* The offset as datetime.isoformat() prints it.
IsoOffset(z) ==
    CASE z = "Z" -> "+00:00"
      [] z = "+0100" -> "+01:00"
      [] OTHER -> z

\* datetime.strptime(text, fmt): the parsed datetime, None for ValueError.
strptime(text, fmt) ==
    CASE fmt = "%Y-%m-%dT%H:%M:%S%z" ->
            IF /\ Len(text) = 4
               /\ text[1] \in Dates /\ text[2] = "T" /\ text[3] \in Times
               /\ text[4] \in ColonOffsets \cup PlainOffsets \cup {"Z"}
            THEN Some([date |-> text[1], time |-> text[3],
                       tz |-> Some(IsoOffset(text[4]))])
            ELSE None
      [] fmt = "%Y-%m-%dT%H:%M:%S" ->
            IF /\ Len(text) = 3
               /\ text[1] \in Dates /\ text[2] = "T" /\ text[3] \in Times
            THEN Some([date |-> text[1], time |-> text[3], tz |-> None])
            ELSE None
      [] fmt = "%Y-%m-%d" ->
            IF Len(text) = 1 /\ text[1] \in Dates
            THEN Some([date |-> text[1], time |-> "00:00:00", tz |-> None])
            ELSE None

\* datetime.isoformat()
isoformat(dt) == <<dt.date, "T", dt.time>> \o dt.tz

\* val.replace("Z", "+00:00")
ReplaceZ(val) == [k \in 1..Len(val) |-> IF val[k] = "Z" THEN "+00:00" ELSE val[k]]

\* Whether datetime.fromisoformat(s) succeeds.
fromisoformat_ok(s) ==
    \/ Len(s) = 1 /\ s[1] \in Dates
    \/ /\ Len(s) \in {3, 4}
       /\ s[1] \in Dates /\ s[2] \in {"T", " "} /\ s[3] \in Times
       /\ Len(s) = 4 => s[4] \in ColonOffsets

Formats == <<"%Y-%m-%dT%H:%M:%S%z", "%Y-%m-%dT%H:%M:%S", "%Y-%m-%d">>

\* The loop over the three formats of _parse_timestamp, from format k on.
RECURSIVE TryFormats(_, _)
TryFormats(text, k) ==
    IF k > Len(Formats) THEN None
    ELSE LET dt == strptime(text, Formats[k])
         IN  IF dt # None
             THEN LET d == IF Formats[k] = "%Y-%m-%d"
                           THEN [date |-> dt[1].date, time |-> "00:00:00", tz |-> None]
                           ELSE dt[1]
                  IN  Some(isoformat(d) \o <<"Z">>)
             ELSE TryFormats(text, k + 1)

\* _parse_timestamp(element) for an element given as (page, index); index 0
\* is None.
_parse_timestamp(dom, e) ==
    IF e = 0 THEN None
    ELSE LET val == dom[e].attrs["datetime"]
             text == GetText(dom, e, <<>>, TRUE)
         IN  IF /\ val # None
                /\ Strip(val[1]) # <<>>
                /\ fromisoformat_ok(ReplaceZ(val[1]))
             THEN val
             ELSE IF text = <<>> THEN None
             ELSE TryFormats(text, 1)

IsLikeElem(e) == HasClass(e, "like") \/ HasClass(e, "reaction")

IsTimeTag(e) == e.tag = "time"

IsTimeClass(e) == HasClass(e, "time")

IsContentClass(e) == HasClass(e, "content")

IsParagraph(e) == e.tag = "p"

IsCommentClass(e) == HasClass(e, "comment")

IsPostCandidate(e) ==
    HasClass(e, "post") \/ HasClass(e, "feed-item") \/ HasClass(e, "status")

\* A slip: the seen_ids test forgotten, every match kept.
UniqKeepAll(elems, seen) == elems

\* The sequence without its repeated members, first occurrences kept: the
\* seen_ids loop of parse_posts_page.
RECURSIVE Uniq(_, _)
Uniq(elems, seen) ==
    IF elems = <<>> THEN <<>>
    ELSE IF Head(elems) \in seen THEN Uniq(Tail(elems), seen)
    ELSE <<Head(elems)>> \o Uniq(Tail(elems), seen \cup {Head(elems)})

\* uniq_posts: the matches of the three selectors, concatenated, deduplicated.
UniqPosts(dom) ==
    Uniq(Select(dom, 0, LAMBDA e : HasClass(e, "post"))
           \o Select(dom, 0, LAMBDA e : HasClass(e, "feed-item"))
           \o Select(dom, 0, LAMBDA e : HasClass(e, "status")),
         {})

\* body_elem and post_body of a post fragment.
PostBodyElem(dom, post) ==
    OrElem(Find(dom, post, IsContentClass),
           OrElem(Find(dom, post, IsParagraph), post))

PostBody(dom, post) == GetText(dom, PostBodyElem(dom, post), <<" ">>, TRUE)

\* likes_count of a post, or comment_likes of a comment.
LikesOf(dom, e) ==
    LET likes_elem == Find(dom, e, IsLikeElem)
    IN  IF likes_elem # 0
        THEN _parse_likes(GetText(dom, likes_elem, <<>>, FALSE))
        ELSE None

\* timestamp of a post.
PostTimestamp(dom, post) ==
    LET time_elem == OrElem(Find(dom, post, IsTimeTag),
                            Find(dom, post, IsTimeClass))
    IN  IF time_elem # 0 THEN _parse_timestamp(dom, time_elem) ELSE None

\* comment_time of a comment under a post whose timestamp is `timestamp`.
CommentTime(dom, comment_elem, timestamp) ==
    LET comment_time_elem == Find(dom, comment_elem, IsTimeTag)
    IN  IF comment_time_elem # 0
        THEN _parse_timestamp(dom, comment_time_elem)
        ELSE timestamp

CommentText(dom, comment_elem) == GetText(dom, comment_elem, <<" ">>, TRUE)

\* A slip: the comparison with the post body forgotten.
KeptCommentNonEmpty(dom, post, comment_elem) ==
    CommentText(dom, comment_elem) # <<>>

\* The comment_elems of a post that the loop does not skip.
KeptComment(dom, post, comment_elem) ==
    LET comment_text == CommentText(dom, comment_elem)
    IN  ~(comment_text = <<>> \/ comment_text = PostBody(dom, post))

BaseRecord(dom, post, source_url, category) ==
    [stock_name |-> None, ticker |-> None,
     investor_name |-> None, investor_stats |-> None,
     post_content |-> Some(PostBody(dom, post)),
     comment_text |-> None,
     likes_count |-> LikesOf(dom, post),
     post_date |-> PostTimestamp(dom, post),
     category |-> category, source_url |-> source_url]

CommentRecord(dom, post, comment_elem, source_url, category) ==
    [stock_name |-> None, ticker |-> None,
     investor_name |-> None, investor_stats |-> None,
     post_content |-> Some(PostBody(dom, post)),
     comment_text |-> Some(CommentText(dom, comment_elem)),
     likes_count |-> LikesOf(dom, comment_elem),
     post_date |-> CommentTime(dom, comment_elem, PostTimestamp(dom, post)),
     category |-> category, source_url |-> source_url]

\* The records the inner loop appends for the comment_elems from k on.
RECURSIVE CommentRecords(_, _, _, _, _, _)
CommentRecords(dom, post, comment_elems, k, source_url, category) ==
    IF k > Len(comment_elems) THEN <<>>
    ELSE (IF KeptComment(dom, post, comment_elems[k])
          THEN <<CommentRecord(dom, post, comment_elems[k], source_url, category)>>
          ELSE <<>>)
         \o CommentRecords(dom, post, comment_elems, k + 1, source_url, category)

\* The records one iteration of the outer loop appends for a post fragment.
PostRecords(dom, post, source_url, category) ==
    IF GetText(dom, post, <<" ">>, TRUE) = <<>> THEN <<>>
    ELSE <<BaseRecord(dom, post, source_url, category)>>
         \o CommentRecords(dom, post, Select(dom, post, IsCommentClass), 1,
                           source_url, category)

RECURSIVE PostsLoop(_, _, _, _, _)
PostsLoop(dom, posts, k, source_url, category) ==
    IF k > Len(posts) THEN <<>>
    ELSE PostRecords(dom, posts[k], source_url, category)
         \o PostsLoop(dom, posts, k + 1, source_url, category)

parse_posts_page(dom, source_url, category) ==
    PostsLoop(dom, UniqPosts(dom), 1, source_url, category)

-----------------------------------------------------------------------------
(* extractors/investor_parser.py *)

Min(S) == CHOOSE x \in S : \A y \in S : x <= y

\* \s* from position i: the first position at or after i that holds no space.
RECURSIVE SkipSpaces(_, _)
SkipSpaces(s, i) ==
    IF i <= Len(s) /\ IsSpace(s[i]) THEN SkipSpaces(s, i + 1) ELSE i

\* \d* from position i: the position after the run of digits that starts at i.
RECURSIVE DigitsEnd(_, _)
DigitsEnd(s, i) ==
    IF i <= Len(s) /\ IsDigit(s[i]) THEN DigitsEnd(s, i + 1) ELSE i

Is(s, i, c) == i <= Len(s) /\ s[i] = c

\* A match of  risk\s*score\s*(\d+)  starting at i: group 1, else None.
\* (re.IGNORECASE: the lexemes "risk" and "score" stand for any casing.)
RiskScoreAt(s, i) ==
    LET j == SkipSpaces(s, i + 1)
        k == SkipSpaces(s, j + 1)
        e == DigitsEnd(s, k)
    IN  IF Is(s, i, "risk") /\ Is(s, j, "score") /\ e > k
        THEN Some(SubSeq(s, k, e - 1))
        ELSE None

\* [^0-9]* from position i: the first position at or after i holding a digit.
RECURSIVE SkipNonDigits(_, _)
SkipNonDigits(s, i) ==
    IF i <= Len(s) /\ ~IsDigit(s[i]) THEN SkipNonDigits(s, i + 1) ELSE i

\* A match of  risk[^0-9]*(\d+)\s*/\s*10  starting at i: group 1, else None.
RiskOutOfTenAt(s, i) ==
    LET j == SkipNonDigits(s, i + 1)
        e == DigitsEnd(s, j)
        k == SkipSpaces(s, e)
        m == SkipSpaces(s, k + 1)
    IN  IF /\ Is(s, i, "risk") /\ e > j /\ Is(s, k, "/")
           /\ Is(s, m, "1") /\ Is(s, m + 1, "0")
        THEN Some(SubSeq(s, j, e - 1))
        ELSE None

\* re.search: the match at the leftmost position that has one.
Search(s, At(_, _)) ==
    LET hits == {i \in 1..Len(s) : At(s, i) # None}
    IN  IF hits = {} THEN None ELSE At(s, Min(hits))

_parse_risk_score(block_text) ==
    IF block_text = <<>> THEN None
    ELSE LET m1 == Search(block_text, RiskScoreAt)
             m2 == Search(block_text, RiskOutOfTenAt)
         IN  IF m1 # None THEN Some(ToInt(m1[1]))
             ELSE IF m2 # None THEN Some(ToInt(m2[1]))
             ELSE None

\* The position after a 12-month marker (12m | 12\s*months | 1y) at i, else 0.
MarkerEnd(s, i) ==
    IF Is(s, i, "1") /\ Is(s, i + 1, "2") /\ Is(s, i + 2, "m") THEN i + 3
    ELSE IF /\ Is(s, i, "1") /\ Is(s, i + 1, "2")
            /\ Is(s, SkipSpaces(s, i + 2), "months")
         THEN SkipSpaces(s, i + 2) + 1
    ELSE IF Is(s, i, "1") /\ Is(s, i + 1, "y") THEN i + 2
    ELSE 0

IsSign(c) == c \in {"-", "+"}

\* [^0-9\-+]* from i: the first position at or after i with a digit or a sign.
RECURSIVE SkipToNumber(_, _)
SkipToNumber(s, i) ==
    IF i <= Len(s) /\ ~IsDigit(s[i]) /\ ~IsSign(s[i])
    THEN SkipToNumber(s, i + 1) ELSE i

\* A match of the pattern of _parse_return_12m starting at i: group 1 as
\* [sign, whole, frac] (the signed decimal's parts), else None.
ReturnAt(s, i) ==
    LET e == MarkerEnd(s, i)
        j == SkipToNumber(s, e)
        d == IF j <= Len(s) /\ IsSign(s[j]) THEN j + 1 ELSE j
        w == DigitsEnd(s, d)
        hasFrac == Is(s, w, ".") /\ DigitsEnd(s, w + 1) > w + 1
        f == IF hasFrac THEN DigitsEnd(s, w + 1) ELSE w
        k == SkipSpaces(s, f)
    IN  IF e # 0 /\ w > d /\ Is(s, k, "%")
        THEN Some([sign |-> IF d > j THEN <<s[j]>> ELSE <<>>,
                   whole |-> SubSeq(s, d, w - 1),
                   frac |-> IF hasFrac THEN SubSeq(s, w + 2, f - 1) ELSE <<>>])
        ELSE None

\* 10^n
RECURSIVE Pow10(_)
Pow10(n) == IF n = 0 THEN 1 ELSE 10 * Pow10(n - 1)

\* A float as mant / 10^exp with exp least.
RECURSIVE Reduce(_)
Reduce(x) ==
    IF x.exp > 0 /\ x.mant % 10 = 0
    THEN Reduce([mant |-> x.mant \div 10, exp |-> x.exp - 1])
    ELSE x

\* float() of a matched signed decimal.
ToFloat(m) ==
    LET mag == ToInt(m.whole) * Pow10(Len(m.frac)) + ToInt(m.frac)
    IN  Reduce([mant |-> IF m.sign = <<"-">> THEN 0 - mag ELSE mag,
                exp |-> Len(m.frac)])

_parse_return_12m(block_text) ==
    IF block_text = <<>> THEN None
    ELSE LET m == Search(block_text, ReturnAt)
         IN  IF m # None THEN Some(ToFloat(m[1])) ELSE None

\* A slip: `return stats`, the `or None` forgotten.
DictAsIs(stats) == Some(stats)

\* `stats or None`: an empty dict is falsy.
DictOrNone(stats) == IF DOMAIN stats = {} THEN None ELSE Some(stats)

_build_stats(block_text) ==
    LET risk == _parse_risk_score(block_text)
        ret == _parse_return_12m(block_text)
        keys == (IF ret # None THEN {"return_12m"} ELSE {})
                  \cup (IF risk # None THEN {"risk_score"} ELSE {})
        stats == [k \in keys |-> IF k = "return_12m" THEN ret[1] ELSE risk[1]]
    IN  DictOrNone(stats)

IsCard(e) ==
    \/ HasClass(e, "user") \/ HasClass(e, "investor")
    \/ HasAttr(e, "data-etoro-user") \/ HasAttr(e, "data-user-card")

IsTag(e, t) == e.tag = t

\* name_elem of a card.
NameElem(dom, card) ==
    OrElem(Find(dom, card, LAMBDA e : IsTag(e, "strong")),
    OrElem(Find(dom, card, LAMBDA e : IsTag(e, "b")),
    OrElem(Find(dom, card, LAMBDA e : IsTag(e, "h2")),
    OrElem(Find(dom, card, LAMBDA e : IsTag(e, "h3")),
           Find(dom, card, LAMBDA e : IsTag(e, "span") /\ HasClass(e, "name"))))))

\* The position where the first "  " (two spaces) starts in s, else 0.
RECURSIVE IndexOfDoubleSpace(_, _)
IndexOfDoubleSpace(s, i) ==
    IF i + 1 > Len(s) THEN 0
    ELSE IF s[i] = " " /\ s[i + 1] = " " THEN i
    ELSE IndexOfDoubleSpace(s, i + 1)

\* text.split("  ")[0].strip().split(" ")[0].strip()
FirstWordish(text) ==
    LET k == IndexOfDoubleSpace(text, 1)
        seg == Strip(IF k = 0 THEN text ELSE SubSeq(text, 1, k - 1))
    IN  Strip(Split(seg, " ")[1])

\* A slip: the fallback to the first word of the card forgotten.
InvestorNameNoFallback(dom, card) ==
    LET name_elem == NameElem(dom, card)
    IN  IF name_elem # 0
        THEN Some(GetText(dom, name_elem, <<>>, TRUE))
        ELSE None

InvestorName(dom, card) ==
    LET name_elem == NameElem(dom, card)
        investor_name == IF name_elem # 0
                         THEN Some(GetText(dom, name_elem, <<>>, TRUE))
                         ELSE None
    IN  IF ~Truthy(investor_name)
        THEN Some(FirstWordish(GetText(dom, card, <<" ">>, TRUE)))
        ELSE investor_name

InvestorRecord(dom, card, source_url, category) ==
    [stock_name |-> None, ticker |-> None,
     investor_name |-> InvestorName(dom, card),
     investor_stats |-> _build_stats(GetText(dom, card, <<" ">>, TRUE)),
     post_content |-> None, comment_text |-> None,
     likes_count |-> None, post_date |-> None,
     category |-> category, source_url |-> source_url]

RECURSIVE CardsLoop(_, _, _, _, _)
CardsLoop(dom, cards, k, source_url, category) ==
    IF k > Len(cards) THEN <<>>
    ELSE (IF GetText(dom, cards[k], <<" ">>, TRUE) = <<>> THEN <<>>
          ELSE <<InvestorRecord(dom, cards[k], source_url, category)>>)
         \o CardsLoop(dom, cards, k + 1, source_url, category)

parse_investor_page(dom, source_url, category) ==
    CardsLoop(dom, Select(dom, 0, IsCard), 1, source_url, category)

-----------------------------------------------------------------------------
(* extractors/stock_parser.py *)

\* Lexemes of titles: single uppercase letters, and words that hold a
\* lowercase letter (no pattern looks inside them).
UpperLetters == {"A", "L", "S", "T"}

MixedWords == {"Tesla", "Inc", "stock"}

IsWordChar(c) == c \in UpperLetters \cup MixedWords \cup Digits \cup {"_"}

TitleDelimiters == {"(", "|", "-", "en-dash"}

\* The longest run of 1-5 uppercase letters a ticker may be: [A-Z]{1,5}.
TickerMaxLen == 5

\* re.split(r"[\(\|\-\–]", title)[0]: the text before the first delimiter.
RECURSIVE BeforeDelimiter(_)
BeforeDelimiter(title) ==
    IF title = <<>> THEN <<>>
    ELSE IF Head(title) \in TitleDelimiters THEN <<>>
    ELSE <<Head(title)>> \o BeforeDelimiter(Tail(title))

\* \w* from position i: the position after the run of word characters at i.
RECURSIVE WordEnd(_, _)
WordEnd(s, i) ==
    IF i <= Len(s) /\ IsWordChar(s[i]) THEN WordEnd(s, i + 1) ELSE i

\* re.findall(r"\b[A-Z]{1,5}\b", s) from position i on: the whole words of
\* 1 to 5 uppercase letters.
RECURSIVE UpperWords(_, _)
UpperWords(s, i) ==
    IF i > Len(s) THEN <<>>
    ELSE IF ~IsWordChar(s[i]) THEN UpperWords(s, i + 1)
    ELSE LET e == WordEnd(s, i)
             w == SubSeq(s, i, e - 1)
         IN  (IF /\ \A k \in 1..Len(w) : w[k] \in UpperLetters
                 /\ Len(w) <= TickerMaxLen
              THEN <<w>> ELSE <<>>) \o UpperWords(s, e)

_guess_ticker_from_title(title) ==
    IF title = <<>> THEN None
    ELSE LET candidates == UpperWords(BeforeDelimiter(title), 1)
         IN  IF candidates # <<>> THEN Some(candidates[1]) ELSE None

\* " ".join(text.split()): runs of whitespace become one space, none at the
\* ends.
RECURSIVE CollapseSpaces(_)
CollapseSpaces(s) ==
    IF s = <<>> THEN <<>>
    ELSE IF IsSpace(Head(s))
         THEN LET rest == LStrip(s)
              IN  IF rest = <<>> THEN <<>> ELSE <<" ">> \o CollapseSpaces(rest)
         ELSE <<Head(s)>> \o CollapseSpaces(Tail(s))

NormalizeSpaces(s) == CollapseSpaces(LStrip(s))

IsCategoryMeta(e) == e.tag = "meta" /\ e.attrs["name"] = Some(<<"etoro:category">>)

IsBreadcrumb(e) == HasClass(e, "breadcrumb")

\* The parts of a breadcrumb's text: [p for p in text.split("/") if p.strip()]
CrumbParts(dom, crumb) ==
    LET text == NormalizeSpaces(GetText(dom, crumb, <<" ">>, FALSE))
    IN  SelectSeq(Split(text, "/"), LAMBDA q : Strip(q) # <<>>)

\* The loop over the breadcrumbs, from the k-th on.
RECURSIVE CrumbsLoop(_, _, _)
CrumbsLoop(dom, crumbs, k) ==
    IF k > Len(crumbs) THEN None
    ELSE LET parts == CrumbParts(dom, crumbs[k])
         IN  IF Len(parts) >= 2 THEN Some(Strip(parts[Len(parts) - 1]))
             ELSE CrumbsLoop(dom, crumbs, k + 1)

_extract_category(dom) ==
    LET meta_category == Find(dom, 0, IsCategoryMeta)
    IN  IF meta_category # 0 /\ Truthy(dom[meta_category].attrs["content"])
        THEN Some(Strip(dom[meta_category].attrs["content"][1]))
        ELSE CrumbsLoop(dom, Select(dom, 0, IsBreadcrumb), 1)

Children(dom, i) == {j \in 1..Len(dom) : dom[j].parent = i}

\* Tag.string: the element's only child if that is a string, the .string of
\* its only child if that is an element, else None.
RECURSIVE StringOf(_, _)
StringOf(dom, i) ==
    IF dom[i].text # <<>>
    THEN IF Children(dom, i) = {} THEN Some(dom[i].text) ELSE None
    ELSE IF Cardinality(Children(dom, i)) = 1
         THEN StringOf(dom, CHOOSE j \in Children(dom, i) : TRUE)
         ELSE None

IsOgTitle(e) == e.tag = "meta" /\ e.attrs["property"] = Some(<<"og:title">>)

\* stock_name after the three attempts: Open Graph, then h1, then title.
StockName(dom) ==
    LET og_title == Find(dom, 0, IsOgTitle)
        fromOg == IF og_title # 0 /\ Truthy(dom[og_title].attrs["content"])
                  THEN Some(Strip(dom[og_title].attrs["content"][1]))
                  ELSE None
        h1 == Find(dom, 0, LAMBDA e : IsTag(e, "h1"))
        fromH1 == IF ~Truthy(fromOg)
                  THEN IF h1 # 0 /\ GetText(dom, h1, <<>>, TRUE) # <<>>
                       THEN Some(GetText(dom, h1, <<>>, TRUE))
                       ELSE fromOg
                  ELSE fromOg
        title == Find(dom, 0, LAMBDA e : IsTag(e, "title"))
    IN  IF ~Truthy(fromH1) /\ title # 0 /\ Truthy(StringOf(dom, title))
        THEN Some(Strip(StringOf(dom, title)[1]))
        ELSE fromH1

\* A slip: the inference runs whether or not a category was passed in.
StockCategoryAlwaysInferred(dom, category) ==
    LET inferred_category == _extract_category(dom)
    IN  IF Truthy(inferred_category) THEN inferred_category ELSE category

\* The category parse_stock_page ends with: the one passed in, or, when
\* none was passed in, the inferred one if that is not empty.
StockCategory(dom, category) ==
    IF category = None
    THEN LET inferred_category == _extract_category(dom)
         IN  IF Truthy(inferred_category) THEN inferred_category ELSE category
    ELSE category

\* A slip: `or` for `and`.
NoStockSignalEither(stock_name, ticker) == ~Truthy(stock_name) \/ ~Truthy(ticker)

\* `not stock_name and not ticker`
NoStockSignal(stock_name, ticker) == ~Truthy(stock_name) /\ ~Truthy(ticker)

parse_stock_page(dom, source_url, category) ==
    LET stock_name == StockName(dom)
        ticker == _guess_ticker_from_title(
                      IF Truthy(stock_name) THEN stock_name[1] ELSE <<>>)
    IN  IF NoStockSignal(stock_name, ticker) THEN <<>>
        ELSE <<[stock_name |-> stock_name, ticker |-> ticker,
                investor_name |-> None, investor_stats |-> None,
                post_content |-> None, comment_text |-> None,
                likes_count |-> None, post_date |-> None,
                category |-> StockCategory(dom, category),
                source_url |-> source_url]>>

-----------------------------------------------------------------------------
(* main.py *)

FIELD_NAMES ==
    <<"stock_name", "ticker", "investor_name", "investor_stats",
      "post_content", "comment_text", "likes_count", "post_date",
      "category", "source_url">>

FieldSet == {FIELD_NAMES[k] : k \in 1..Len(FIELD_NAMES)}

\* dict.get(key): None for an absent key.
DictGet(d, key) == IF key \in DOMAIN d THEN d[key] ELSE None

\* A slip: the record is built from the partial's non-null values only, the
\* null defaults forgotten.
normalize_record_sparse(partial, category, source_url) ==
    LET set == {f \in DOMAIN partial : partial[f] # None}
        record == [f \in set \cup {"category", "source_url"} |-> DictGet(partial, f)]
    IN  [record EXCEPT
            !["category"] = Or(DictGet(partial, "category"), category),
            !["source_url"] = Or(DictGet(partial, "source_url"), source_url)]

normalize_record(partial, category, source_url) ==
    LET record == [f \in FieldSet \cup DOMAIN partial |-> DictGet(partial, f)]
    IN  [record EXCEPT
            !["category"] = Or(DictGet(partial, "category"),
                               Or(category, record["category"])),
            !["source_url"] = Or(DictGet(partial, "source_url"), source_url)]

\* [normalize_record(rec, category, url) for rec in records]
NormalizeAll(records, category, url) ==
    [k \in 1..Len(records) |-> normalize_record(records[k], category, url)]

\* A slip: the test `if not url` forgotten.
AcceptsAnyObject(entry) == entry.object

\* Whether load_input_urls keeps an entry: a JSON object with a truthy url.
AcceptsEntry(entry) == entry.object /\ Truthy(entry.url)

\* load_input_urls: None stands for a file that is missing, is not JSON or
\* holds no array.
load_input_urls(data) ==
    IF data = None THEN <<>>
    ELSE LET kept == SelectSeq(data[1], AcceptsEntry)
         IN  [k \in 1..Len(kept) |->
                 [url |-> kept[k].url, category |-> kept[k].category]]

\* A slip: `not html`, the strip forgotten.
IsBlankHtmlUnstripped(page) == page.raw = <<>>

\* `not html.strip()`
IsBlankHtml(page) == Strip(page.raw) = <<>>

Extractors == <<"stock", "investor", "posts">>

\* The partial records an extractor returns for a page.
RunExtractor(name, dom, url, category) ==
    CASE name = "stock" -> parse_stock_page(dom, url, category)
      [] name = "investor" -> parse_investor_page(dom, url, category)
      [] name = "posts" -> parse_posts_page(dom, url, category)

\* A slip: the try block of the posts parser placed before that of the
\* investor parser.
NextStepPostsFirst(name) ==
    CASE name = "stock" -> "posts"
      [] name = "posts" -> "investor"
      [] name = "investor" -> "return"

\* The step after extractor `name` of process_url.
NextStep(name) ==
    CASE name = "stock" -> "investor"
      [] name = "investor" -> "posts"
      [] name = "posts" -> "return"

\* A slip: the exception is not caught and ends the run.
AfterFaultAbort(name) == "aborted"

\* Where control goes when extractor `name` raises: its `except Exception`
\* clause logs the error and falls through to the next extractor.
AfterFault(name) == NextStep(name)

-----------------------------------------------------------------------------
(* Bounds *)

\* The most entries of the input array.
MaxInputs == 2

\* The most extractor runs that raise in one run of main.
MaxFaults == 1

\* The most elements of a generated document of posts and comments.
MaxNodes == 4

\* The most elements of a generated document of an instrument.
MaxStockNodes == 3

\* The most elements of a generated document of investor cards.
MaxCardNodes == 3

\* The most lexemes of the text of a generated time element.
MaxTimeText == 4

\* The most elements of a generated document of a feed.
MaxFeedNodes == 4

-----------------------------------------------------------------------------
(* Sample documents and inputs of the runs of main *)

Div(parent, cls, text) == Elem(parent, "div", cls, NoAttrs, text)

Tag(parent, tag, text) == Elem(parent, tag, {}, NoAttrs, text)

Meta(attr, key, content) ==
    Elem(0, "meta", {},
         [NoAttrs EXCEPT ![attr] = Some(<<key>>), !["content"] = content], <<>>)

TimeTag(parent, datetime, text) ==
    Elem(parent, "time", {}, [NoAttrs EXCEPT !["datetime"] = datetime], text)

\* An HTTP response body: its text as far as `strip` sees it, and the
\* document BeautifulSoup makes of it.
Html(raw, dom) == [raw |-> raw, dom |-> dom]

\* fetch_page's "" when the request fails.
EmptyHtml == Html(<<>>, <<>>)

\* The page of an instrument: Open Graph title, heading, breadcrumb.
StockPage ==
    Html(<<"<html>">>,
         <<Meta("property", "og:title",
                Some(<<"T", "S", "L", "A", " ", "(", "Tesla", ")">>)),
           Tag(0, "h1", <<"Tesla">>),
           Elem(0, "nav", {"breadcrumb"}, NoAttrs,
                <<"stock", " ", "/", " ", "Tesla", " ", "/", " ", "T">>)>>)

\* A feed: a post with a body, likes, a date and two comments, one of them
\* repeating the body; the whole inside a profile card, in a document with
\* a title.
FeedPage ==
    Html(<<"<html>">>,
         <<Div(0, {"user", "post"}, <<>>),
           Tag(1, "p", <<"Tesla">>),
           Elem(1, "span", {"like"}, NoAttrs, <<"1", "5", " ", "stock">>),
           TimeTag(1, Some(<<"2025-03-22", "T", "14:30:00", "Z">>), <<>>),
           Div(1, {"comment"}, <<"Tesla">>),
           Div(1, {"comment"}, <<"stock">>),
           TimeTag(6, None, <<"2025-03-22">>),
           Tag(0, "title", <<"Tesla">>)>>)

\* A body of white space only.
BlankPage == Html(<<" ">>, <<>>)

SitePages == {StockPage, FeedPage, BlankPage}

UrlA == <<"https://a">>

UrlB == <<"https://b">>

Tech == <<"Tech">>

Entry(object, url, category) ==
    [object |-> object, url |-> url, category |-> category]

\* The entries an input array may hold.
SampleEntries ==
    {Entry(FALSE, None, None),
     Entry(TRUE, None, Some(Tech)),
     Entry(TRUE, Some(<<>>), None),
     Entry(TRUE, Some(UrlA), None),
     Entry(TRUE, Some(UrlB), Some(Tech))}

SeqsUpTo(S, n) == UNION {[1..k -> S] : k \in 0..n}

\* The input files: unreadable (None), or an array of at most MaxInputs
\* entries.
InputFiles == {None} \cup {Some(a) : a \in SeqsUpTo(SampleEntries, MaxInputs)}

NoArg == [dom |-> <<>>, url |-> None, category |-> None]

-----------------------------------------------------------------------------
(* The run of main *)

Init ==
    /\ inputs \in InputFiles
    /\ urls = <<>>
    /\ idx = 0
    /\ pc = "load"
    /\ html = EmptyHtml
    /\ page_records = <<>>
    /\ all_records = <<>>
    /\ raised = {}
    /\ fetched = <<>>
    /\ exported = None
    /\ arg = NoArg
    /\ result = <<>>

\* main, lines 237-242: load the URLs; leave when there are none.
LoadInputUrls ==
    /\ pc = "load"
    /\ urls' = load_input_urls(inputs)
    /\ IF urls' = <<>>
       THEN pc' = "done" /\ idx' = idx
       ELSE pc' = "fetch" /\ idx' = 1
    /\ UNCHANGED <<inputs, html, page_records, all_records, raised, fetched,
                   exported, arg, result>>

\* fetch_page returns the body of the response.
FetchPage ==
    /\ pc = "fetch"
    /\ \E page \in SitePages :
          /\ html' = page
          /\ fetched' = Append(fetched, page)
    /\ pc' = "process"
    /\ UNCHANGED <<inputs, urls, idx, page_records, all_records, raised,
                   exported, arg, result>>

\* fetch_page catches a RequestException and returns "".
FetchFails ==
    /\ pc = "fetch"
    /\ html' = EmptyHtml
    /\ fetched' = Append(fetched, EmptyHtml)
    /\ pc' = "process"
    /\ UNCHANGED <<inputs, urls, idx, page_records, all_records, raised,
                   exported, arg, result>>

\* process_url, lines 174-178: an empty body returns [] at once.
EnterProcessUrl ==
    /\ pc = "process"
    /\ page_records' = <<>>
    /\ pc' = IF IsBlankHtml(html) THEN "return" ELSE "stock"
    /\ UNCHANGED <<inputs, urls, idx, html, all_records, raised, fetched,
                   exported, arg, result>>

\* One try block of process_url running to its end.
Extract(name) ==
    /\ pc = name
    /\ page_records' =
          page_records \o
            NormalizeAll(RunExtractor(name, html.dom, urls[idx].url,
                                      urls[idx].category),
                         urls[idx].category, urls[idx].url)
    /\ pc' = NextStep(name)
    /\ UNCHANGED <<inputs, urls, idx, html, all_records, raised, fetched,
                   exported, arg, result>>

\* One try block of process_url whose extractor raises.
ExtractorRaises(name) ==
    /\ pc = name
    /\ Cardinality(raised) < MaxFaults
    /\ raised' = raised \cup {<<idx, name>>}
    /\ pc' = AfterFault(name)
    /\ UNCHANGED <<inputs, urls, idx, html, page_records, all_records, fetched,
                   exported, arg, result>>

\* process_url returns its all_records (its frame is gone); main extends its
\* own all_records and takes the next entry.
ReturnRecords ==
    /\ pc = "return"
    /\ all_records' = all_records \o page_records
    /\ page_records' = <<>>
    /\ idx' = idx + 1
    /\ pc' = IF idx < Len(urls) THEN "fetch" ELSE "export"
    /\ UNCHANGED <<inputs, urls, html, raised, fetched, exported, arg, result>>

\* main, lines 251-260: write the two files unless nothing was extracted.
Export ==
    /\ pc = "export"
    /\ exported' = IF all_records = <<>> THEN None
                   ELSE Some([json |-> all_records, csv |-> all_records])
    /\ pc' = "done"
    /\ UNCHANGED <<inputs, urls, idx, html, page_records, all_records, raised,
                   fetched, arg, result>>

Next ==
    \/ LoadInputUrls
    \/ FetchPage
    \/ FetchFails
    \/ EnterProcessUrl
    \/ \E name \in {"stock", "investor", "posts"} : Extract(name)
    \/ \E name \in {"stock", "investor", "posts"} : ExtractorRaises(name)
    \/ ReturnRecords
    \/ Export

Spec == Init /\ [][Next]_vars

-----------------------------------------------------------------------------------------------------------------------------------------------------
(* What a run of main has to have collected, from what was fetched and     *)
(* which extractor runs raised.                                            *)

RECURSIVE Concat(_)
Concat(seqs) == IF seqs = <<>> THEN <<>> ELSE Head(seqs) \o Concat(Tail(seqs))

\* The records of extractor k on the page of urls[i], none if that run
\* raised.
ExtractorOutput(i, k) ==
    IF <<i, Extractors[k]>> \in raised THEN <<>>
    ELSE NormalizeAll(RunExtractor(Extractors[k], fetched[i].dom,
                                   urls[i].url, urls[i].category),
                      urls[i].category, urls[i].url)

\* The records of the first n extractors on the page of urls[i].
PageOutput(i, n) ==
    IF IsBlankHtml(fetched[i]) THEN <<>>
    ELSE Concat([k \in 1..n |-> ExtractorOutput(i, k)])

\* The records of the first n pages.
RunOutput(n) == Concat([i \in 1..n |-> PageOutput(i, Len(Extractors))])

\* How many extractors of the current page are behind the program.
StepsDone ==
    CASE pc = "stock" -> 0 [] pc = "investor" -> 1 [] pc = "posts" -> 2
      [] OTHER -> 3

InProcessUrl == pc \in {"stock", "investor", "posts", "return"}

Finished == pc \in {"export", "done"} /\ urls # <<>>

\* C2: an extractor that raises aborts nothing: process_url goes on to the
\* next extractor and returns, the records of the extractors that did not
\* raise are collected, in page_records for the current page and in
\* all_records for the pages before it, and when main ends every URL has
\* been fetched and processed.
C2_FaultIsolation ==
    /\ \A f \in raised :
          \/ f[1] < idx
          \/ f[1] = idx /\ InProcessUrl /\ StepsDone >= 
                CHOOSE k \in 1..Len(Extractors) : Extractors[k] = f[2]
    /\ InProcessUrl /\ ~IsBlankHtml(html) => page_records = PageOutput(idx, StepsDone)
    /\ pc \in {"fetch", "process"} \/ InProcessUrl =>
          all_records = RunOutput(idx - 1)
    /\ Finished =>
          /\ Len(fetched) = Len(urls)
          /\ all_records = RunOutput(Len(urls))

\* C2 witness: a finished run over two URLs in which the stock extractor
\* raised on the first page, whose investor records and the records of the
\* second page were collected all the same.
C2_Witness ==
    /\ pc = "done"
    /\ Len(urls) = 2
    /\ urls[1].url # urls[2].url
    /\ <<1, "stock">> \in raised
    /\ \E k \in 1..Len(all_records) :
          /\ all_records[k].source_url = urls[1].url
          /\ all_records[k].investor_name # None
    /\ \E k \in 1..Len(all_records) : all_records[k].source_url = urls[2].url

\* The records in hand: those of the current page and those collected.
RecordsInHand ==
    {page_records[k] : k \in 1..Len(page_records)}
      \cup {all_records[k] : k \in 1..Len(all_records)}

\* C1: every record process_url returns has exactly the 10 keys of
\* FIELD_NAMES.
C1_AllFieldsPresent == \A r \in RecordsInHand : DOMAIN r = FieldSet

\* C1 witness: a finished run that collected a stock record, an investor
\* record and a comment record, each with fields left null.
C1_Witness ==
    /\ pc = "done"
    /\ \E r \in RecordsInHand : r.stock_name # None /\ r.post_content = None
    /\ \E r \in RecordsInHand : r.investor_name # None /\ r.ticker = None
    /\ \E r \in RecordsInHand : r.comment_text # None /\ r.investor_stats = None

\* The position in urls of the page that the k-th collected record is from.
RECURSIVE OwnerFrom(_, _)
OwnerFrom(k, i) ==
    IF k <= Len(PageOutput(i, Len(Extractors))) THEN i
    ELSE OwnerFrom(k - Len(PageOutput(i, Len(Extractors))), i + 1)

\* C5: every record has a source_url that is not null and is the URL of the
\* page it was extracted from.
C5_SourceUrl ==
    /\ \A k \in 1..Len(page_records) :
          /\ page_records[k].source_url # None
          /\ page_records[k].source_url = urls[idx].url
    /\ pc \in {"fetch", "process", "export", "done"} \/ InProcessUrl =>
          \A k \in 1..Len(all_records) :
             /\ all_records[k].source_url # None
             /\ all_records[k].source_url = urls[OwnerFrom(k, 1)].url

\* C5 witness: records of two pages with different URLs were collected.
C5_Witness ==
    /\ pc = "done"
    /\ \E j, k \in 1..Len(all_records) :
          /\ all_records[j].source_url = Some(UrlA)
          /\ all_records[k].source_url = Some(UrlB)

\* The extractor a record is from, as a place in Extractors: a stock record
\* has a stock_name, an investor record an investor_name, a post or comment
\* record neither.
Kind(r) ==
    IF r.stock_name # None THEN 1
    ELSE IF r.investor_name # None THEN 2
    ELSE 3

\* The places in urls of the URL a record carries.
PlacesOf(r) == {i \in 1..Len(urls) : urls[i].url = r.source_url}

\* Stock records, then investor records, then post and comment records.
KindsAscend(recs) ==
    \A j, k \in 1..Len(recs) : j < k => Kind(recs[j]) <= Kind(recs[k])

\* Every comment record follows, with no other page's or extractor's record
\* in between, a post or comment record of the same post: the comment
\* records of a post stand after its post record and before the next one.
CommentsFollowPost(recs) ==
    \A k \in 1..Len(recs) :
       recs[k].comment_text # None =>
          /\ k > 1
          /\ Kind(recs[k]) = 3
          /\ Kind(recs[k - 1]) = 3
          /\ recs[k - 1].post_content = recs[k].post_content
          /\ recs[k - 1].source_url = recs[k].source_url

\* C12: the records main has collected stand in the order of their URLs in
\* the input; the records of one page, in process_url's list and (where the
\* URL stands once in the input) in main's list, are stock records, then
\* investor records, then post and comment records; and each comment record
\* stands after its post record and before the next post record.
C12_RecordOrder ==
    /\ \A j, k \in 1..Len(all_records) :
          j < k => \E a \in PlacesOf(all_records[j]),
                      b \in PlacesOf(all_records[k]) : a <= b
    /\ \A k \in 1..Len(all_records) :
          \E a \in PlacesOf(all_records[k]) :
             a < idx \/ pc \in {"export", "done"}
    /\ KindsAscend(page_records)
    /\ \A j, k \in 1..Len(all_records) :
          /\ j < k
          /\ all_records[j].source_url = all_records[k].source_url
          /\ Cardinality(PlacesOf(all_records[j])) = 1
          => Kind(all_records[j]) <= Kind(all_records[k])
    /\ CommentsFollowPost(page_records)
    /\ CommentsFollowPost(all_records)

\* C12 witness: a finished run over two different URLs that both gave
\* records; the records of the second page are a stock record, an investor
\* record, a post record and a comment record, and stand after those of the
\* first.
C12_Witness ==
    /\ pc = "done"
    /\ Len(urls) = 2
    /\ urls[1].url # urls[2].url
    /\ \E n \in 1..Len(all_records) :
          /\ n + 4 = Len(all_records)
          /\ \A k \in 1..n : all_records[k].source_url = urls[1].url
          /\ \A k \in (n + 1)..(n + 4) :
                all_records[k].source_url = urls[2].url
          /\ Kind(all_records[n + 1]) = 1
          /\ Kind(all_records[n + 2]) = 2
          /\ Kind(all_records[n + 3]) = 3
          /\ all_records[n + 3].comment_text = None
          /\ all_records[n + 4].comment_text # None

\* A body that is empty or holds white space only.
WhitespaceOnly(page) == \A k \in 1..Len(page.raw) : IsSpace(page.raw[k])

\* The pages fetched so far that are not WhitespaceOnly.
PagesWithBody == {i \in 1..Len(fetched) : ~WhitespaceOnly(fetched[i])}

\* C13: a page whose body is empty or white space only never brings the
\* program to an extractor, neither to run it nor to have it raise, and
\* gives no record; the run goes on, so that at the end every URL has been
\* fetched; and the JSON and CSV outputs are written, with the collected
\* records, only when there is at least one.
C13_BlankPagesAndExport ==
    /\ pc \in {"stock", "investor", "posts"} => ~WhitespaceOnly(html)
    /\ \A f \in raised : f[1] \in PagesWithBody
    /\ InProcessUrl /\ WhitespaceOnly(html) => page_records = <<>>
    /\ \A k \in 1..Len(all_records) :
          \E i \in PagesWithBody : urls[i].url = all_records[k].source_url
    /\ PagesWithBody = {} => all_records = <<>>
    /\ Finished => Len(fetched) = Len(urls)
    /\ exported # None =>
          /\ pc = "done"
          /\ all_records # <<>>
          /\ exported[1].json = all_records
          /\ exported[1].csv = all_records
    /\ pc = "done" /\ all_records = <<>> => exported = None

\* C13 witness: a finished run over two different URLs whose first page had
\* a body of white space and whose second page gave records: they are the
\* only records and were written.
C13_Witness ==
    /\ pc = "done"
    /\ Len(urls) = 2
    /\ urls[1].url # urls[2].url
    /\ fetched[1].raw # <<>>
    /\ WhitespaceOnly(fetched[1])
    /\ all_records # <<>>
    /\ \A k \in 1..Len(all_records) : all_records[k].source_url = urls[2].url
    /\ exported # None

-----
(* Generated documents: every tree of at most n elements, each element one *)
(* of a set of templates, in document order.                               *)

\* The elements a next element of document d may be a child of: the
\* document itself (0), the last element and its ancestors, as far as they
\* are containers (div).
RECURSIVE OpenFrom(_, _)
OpenFrom(d, j) ==
    IF j = 0 THEN {0}
    ELSE (IF d[j].tag = "div" THEN {j} ELSE {}) \cup OpenFrom(d, d[j].parent)

OpenElems(d) == OpenFrom(d, Len(d))

RECURSIVE Docs(_, _)
Docs(templates, n) ==
    IF n = 0 THEN {<<>>}
    ELSE LET smaller == Docs(templates, n - 1)
         IN  smaller \cup
             UNION {{Append(d, [t EXCEPT !.parent = q]) :
                        t \in templates, q \in OpenElems(d)} :
                    d \in {x \in smaller : Len(x) = n - 1}}

-----------------------------------------------------------------------------
(* parse_posts_page on generated documents *)

\* A post container, a leaf post matched by two selectors, a paragraph, and
\* comments: one repeating the paragraph, one distinct (a container), one
\* of white space only.
PostTemplates ==
    {Div(0, {"post"}, <<>>),
     Elem(0, "article", {"post", "feed-item"}, NoAttrs, <<"Tesla">>),
     Tag(0, "p", <<"Tesla">>),
     Elem(0, "li", {"comment"}, NoAttrs, <<"Tesla">>),
     Div(0, {"comment"}, <<"stock">>),
     Elem(0, "li", {"comment"}, NoAttrs, <<" ">>)}

Args(doms, categories) ==
    {[dom |-> d, url |-> Some(UrlA), category |-> c] :
        d \in doms, c \in categories}

InitUnit(args, start) ==
    /\ arg \in args
    /\ pc = start
    /\ result = <<>>
    /\ page_records = <<>>
    /\ inputs = None
    /\ urls = <<>>
    /\ idx = 0
    /\ html = EmptyHtml
    /\ all_records = <<>>
    /\ raised = {}
    /\ fetched = <<>>
    /\ exported = None

\* One try block of process_url on its own: the extractor runs on the
\* argument and its records are normalized.
CallExtractor(name) ==
    /\ pc = name
    /\ result' = RunExtractor(name, arg.dom, arg.url, arg.category)
    /\ page_records' = NormalizeAll(result', arg.category, arg.url)
    /\ pc' = "returned"
    /\ UNCHANGED <<inputs, urls, idx, html, all_records, raised, fetched,
                   exported, arg>>

InitPosts == InitUnit(Args(Docs(PostTemplates, MaxNodes), {None}), "posts")

NextPosts == CallExtractor("posts")

SpecPosts == InitPosts /\ [][NextPosts]_vars

-----------------------------------------------------------------------------
(* parse_stock_page on generated documents *)

Auto == <<"Auto">>

\* Open Graph titles (one of white space only), a heading, a document
\* title, category meta tags (one of white space only) and breadcrumbs of
\* three segments and of one.
StockTemplates ==
    {Meta("property", "og:title", Some(<<"T", "S", "L", "A", " ", "(", "Tesla", ")">>)),
     Meta("property", "og:title", Some(<<" ">>)),
     Tag(0, "h1", <<"Tesla">>),
     Tag(0, "title", <<"A", " ", "stock">>),
     Meta("name", "etoro:category", Some(Auto)),
     Meta("name", "etoro:category", Some(<<" ">>)),
     Elem(0, "nav", {"breadcrumb"}, NoAttrs,
          <<"stock", " ", "/", " ", "Tesla", " ", "/", " ", "T">>),
     Elem(0, "nav", {"breadcrumb"}, NoAttrs, <<"stock">>)}

Categories == {None, Some(<<>>), Some(Tech)}

InitStock ==
    InitUnit(Args(Docs(StockTemplates, MaxStockNodes), Categories), "stock")

NextStock == CallExtractor("stock")

SpecStock == InitStock /\ [][NextStock]_vars

Returned == pc = "returned"

\* The candidates for the name in the order of the chain: the stripped
\* content of the first Open Graph title, the text of the first h1, the
\* stripped string of the document title; None where the page has none.
NameCandidates(dom) ==
    LET og == Find(dom, 0, IsOgTitle)
        h1 == Find(dom, 0, LAMBDA e : IsTag(e, "h1"))
        title == Find(dom, 0, LAMBDA e : IsTag(e, "title"))
    IN  <<IF og # 0 /\ dom[og].attrs["content"] # None
          THEN Some(Strip(dom[og].attrs["content"][1])) ELSE None,
          IF h1 # 0 THEN Some(GetText(dom, h1, <<>>, TRUE)) ELSE None,
          IF title # 0 /\ StringOf(dom, title) # None
          THEN Some(Strip(StringOf(dom, title)[1])) ELSE None>>

\* The first candidate that is not empty.
FirstNonEmpty(cands) ==
    LET hits == {k \in 1..Len(cands) : Truthy(cands[k])}
    IN  IF hits = {} THEN None ELSE cands[Min(hits)]

\* Whether rec is the one record of a stock page with this name.
IsStockRecord(rec, name) ==
    /\ rec.stock_name = name
    /\ rec.ticker = _guess_ticker_from_title(name[1])
    /\ rec.category = StockCategory(arg.dom, arg.category)
    /\ rec.source_url = arg.url
    /\ \A f \in {"investor_name", "investor_stats", "post_content",
                 "comment_text", "likes_count", "post_date"} : rec[f] = None

\* C4 as stated: parse_stock_page returns [] when the name and the ticker
\* are both null, and otherwise exactly one record.
C4_AsStated ==
    Returned =>
       LET name == StockName(arg.dom)
           ticker == IF Truthy(name) THEN _guess_ticker_from_title(name[1])
                     ELSE None
       IN  IF name = None /\ ticker = None
           THEN result = <<>>
           ELSE Len(result) = 1 /\ IsStockRecord(result[1], name)

\* C4 as amended: parse_stock_page returns [] when no candidate of the chain
\* (og:title, h1, document title) is a non-empty name (the name is then null
\* or the empty string, and the ticker null), and otherwise exactly one
\* record with stock_name, ticker, category and source_url set from the page
\* and every investor/post field null; it never returns more than one.
C4_OneStockRecord ==
    Returned =>
       LET name == FirstNonEmpty(NameCandidates(arg.dom))
       IN  /\ Len(result) <= 1
           /\ IF name = None
              THEN result = <<>>
              ELSE Len(result) = 1 /\ IsStockRecord(result[1], name)

\* C4 witness: a page with a name but no ticker returned one record, with a
\* null ticker.
C4_Witness ==
    /\ Returned
    /\ Len(result) = 1
    /\ result[1].stock_name = Some(<<"Tesla">>)
    /\ result[1].ticker = None

\* C10: parse_stock_page infers a category only when none was passed in, so
\* a category passed in is the record's category, and without one it is the
\* inferred category if that is not empty, else null; after normalize_record
\* the category is the partial record's if set, else the one passed in, else
\* null.
C10_Category ==
    Returned =>
       \A k \in 1..Len(result) :
          /\ arg.category # None => result[k].category = arg.category
          /\ arg.category = None =>
                result[k].category =
                   IF Truthy(_extract_category(arg.dom))
                   THEN _extract_category(arg.dom) ELSE None
          /\ page_records[k].category =
                IF result[k].category # None THEN result[k].category
                ELSE IF arg.category # None THEN arg.category
                ELSE None

\* C10 witness: a category was passed in for a page from which another one
\* can be inferred, and the record carries the one passed in.
C10_Witness ==
    /\ Returned
    /\ Len(result) = 1
    /\ arg.category = Some(Tech)
    /\ _extract_category(arg.dom) = Some(Auto)
    /\ result[1].category = Some(Tech)
    /\ page_records[1].category = Some(Tech)

-----------------------------------------------------------------------------
(* parse_investor_page on generated documents *)

\* Cards by class (one empty, one with a risk score, one of white space
\* only) and by data attribute (with a 12-month return), name elements (one
\* empty), and paragraphs: one with a double space, one with a risk out of
\* ten.
CardTemplates ==
    {Div(0, {"user"}, <<>>),
     Div(0, {"investor"}, <<"risk", " ", "score", " ", "7">>),
     Div(0, {"user"}, <<" ">>),
     Elem(0, "li", {}, [NoAttrs EXCEPT !["data-user-card"] = Some(<<>>)],
          <<"1", "2", "m", ":", " ", "-", "3", ".", "5", "%">>),
     Elem(0, "li", {}, [NoAttrs EXCEPT !["data-etoro-user"] = Some(<<"7">>)],
          <<"Tesla">>),
     Tag(0, "strong", <<"Tesla">>),
     Tag(0, "strong", <<>>),
     Elem(0, "span", {"name"}, NoAttrs, <<"stock">>),
     Tag(0, "p", <<"Inc", " ", " ", "stock">>),
     Tag(0, "p", <<"risk", ":", " ", "3", "/", "1", "0">>)}

InitInvestor ==
    InitUnit(Args(Docs(CardTemplates, MaxCardNodes), {None}), "investor")

NextInvestor == CallExtractor("investor")

SpecInvestor == InitInvestor /\ [][NextInvestor]_vars

CardText(dom, card) == GetText(dom, card, <<" ">>, TRUE)

\* The matched nodes that have visible text, in document order.
CardsWithText(dom) ==
    SelectSeq(Indices(dom), LAMBDA j : IsCard(dom[j]) /\ CardText(dom, j) # <<>>)

StatKeys == {"return_12m", "risk_score"}

\* C6: _build_stats never returns an empty mapping: for the text of every
\* card it returns null when neither a risk score nor a 12-month return is
\* recognised, else a mapping of exactly the recognised ones; so the
\* investor_stats of every record is null or holds at least one of
\* return_12m and risk_score.
C6_StatsNeverEmpty ==
    Returned =>
       /\ \A j \in 1..Len(arg.dom) :
             LET text == CardText(arg.dom, j)
                 risk == _parse_risk_score(text)
                 ret == _parse_return_12m(text)
                 stats == _build_stats(text)
             IN  /\ stats = None <=> (risk = None /\ ret = None)
                 /\ stats # None =>
                       /\ DOMAIN stats[1] # {}
                       /\ "risk_score" \in DOMAIN stats[1] <=> risk # None
                       /\ "return_12m" \in DOMAIN stats[1] <=> ret # None
                       /\ DOMAIN stats[1] \subseteq StatKeys
       /\ \A k \in 1..Len(page_records) :
             \/ page_records[k].investor_stats = None
             \/ /\ DOMAIN page_records[k].investor_stats[1] # {}
                /\ DOMAIN page_records[k].investor_stats[1] \subseteq StatKeys

\* C6 witness: one page gave a record without stats, one with a return only
\* and one with both a return and a risk score.
C6_Witness ==
    /\ Returned
    /\ \E k \in 1..Len(page_records) : page_records[k].investor_stats = None
    /\ \E k \in 1..Len(page_records) :
          /\ page_records[k].investor_stats # None
          /\ DOMAIN page_records[k].investor_stats[1] = {"return_12m"}
    /\ \E k \in 1..Len(page_records) :
          /\ page_records[k].investor_stats # None
          /\ DOMAIN page_records[k].investor_stats[1] = StatKeys

\* C7: parse_investor_page emits one record per matched node that has
\* visible text, nested ones included, in document order, none for a
\* matched node without visible text, and every record has a non-empty
\* investor_name.
C7_OneRecordPerCard ==
    Returned =>
       LET cards == CardsWithText(arg.dom)
       IN  /\ Len(result) = Len(cards)
           /\ \A k \in 1..Len(result) :
                 /\ Truthy(result[k].investor_name)
                 /\ result[k].investor_stats = _build_stats(CardText(arg.dom, cards[k]))

\* C7 witness: a card nested in a card gave a record each, the inner one
\* named by the first word of its text, and a card without visible text
\* gave none.
C7_Witness ==
    /\ Returned
    /\ Len(arg.dom) = 3
    /\ IsCard(arg.dom[1]) /\ IsCard(arg.dom[2]) /\ IsCard(arg.dom[3])
    /\ arg.dom[2].parent = 1
    /\ CardText(arg.dom, 3) = <<>>
    /\ Len(result) = 2
    /\ result[2].investor_name = Some(<<"risk">>)

-----------------------------------------------------------------------------
(* Claims about parse_posts_page *)

\* The post fragments that have visible text, in the order of processing.
PostsWithText(dom) ==
    SelectSeq(UniqPosts(dom), LAMBDA q : GetText(dom, q, <<" ">>, TRUE) # <<>>)

\* The comment nodes nested in post q, in document order.
CommentNodes(dom, q) ==
    SelectSeq(Indices(dom),
              LAMBDA c : IsInside(dom, q, c) /\ HasClass(dom[c], "comment"))

\* Those of them whose text is neither empty nor the body of the post.
DistinctComments(dom, q) ==
    SelectSeq(CommentNodes(dom, q),
              LAMBDA c : /\ CommentText(dom, c) # <<>>
                         /\ CommentText(dom, c) # PostBody(dom, q))

\* Whether recs, from position at on, holds for each of the posts from the
\* k-th on its post record followed by one record per distinct comment.
RECURSIVE PostSegments(_, _, _, _, _)
PostSegments(dom, recs, posts, k, at) ==
    IF k > Len(posts) THEN Len(recs) = at - 1
    ELSE LET q == posts[k]
             cs == DistinctComments(dom, q)
         IN  /\ Len(recs) >= at + Len(cs)
             /\ recs[at].comment_text = None
             /\ recs[at].post_content = Some(PostBody(dom, q))
             /\ \A n \in 1..Len(cs) :
                   /\ recs[at + n].comment_text = Some(CommentText(dom, cs[n]))
                   /\ recs[at + n].post_content = Some(PostBody(dom, q))
             /\ PostSegments(dom, recs, posts, k + 1, at + Len(cs) + 1)

\* C3: for every post fragment, a nested comment node whose text is empty or
\* is the post body gives no record and every other nested comment node
\* gives exactly one comment record, whose post_content is the body of the
\* parent post: the records are, post by post, the post record and then one
\* record per distinct comment.
C3_CommentRecords ==
    Returned => PostSegments(arg.dom, result, PostsWithText(arg.dom), 1, 1)

\* C3 witness: one post with two nested comments, one repeating the post
\* body and one distinct, gave exactly two records: the post and the
\* distinct comment.
C3_Witness ==
    /\ Returned
    /\ Len(UniqPosts(arg.dom)) = 1
    /\ LET q == UniqPosts(arg.dom)[1]
           cs == CommentNodes(arg.dom, q)
       IN  /\ Len(cs) = 2
           /\ CommentText(arg.dom, cs[1]) = PostBody(arg.dom, q)
           /\ CommentText(arg.dom, cs[2]) # <<>>
           /\ CommentText(arg.dom, cs[2]) # PostBody(arg.dom, q)
           /\ Len(result) = 2
           /\ result[1].comment_text = None
           /\ result[2].comment_text = Some(CommentText(arg.dom, cs[2]))

-----------------------------------------------------------------------------
(* parse_posts_page on generated documents with time elements *)

\* A post, a comment, and time elements: one with a valid datetime
\* attribute, one with a date as text, one with text that is no date.
CommentTemplates ==
    {Div(0, {"post"}, <<"Tesla">>),
     Div(0, {"comment"}, <<"stock">>),
     TimeTag(0, Some(<<"2025-03-22", "T", "14:30:00", "Z">>), <<>>),
     TimeTag(0, None, <<"2025-03-22">>),
     TimeTag(0, None, <<"stock">>)}

InitComments ==
    InitUnit(Args(Docs(CommentTemplates, MaxNodes), {None}), "posts")

SpecComments == InitComments /\ [][NextPosts]_vars

\* The timestamp a comment yields of its own, None if it yields none.
OwnTimestamp(dom, c) ==
    LET t == Find(dom, c, IsTimeTag)
    IN  IF t # 0 THEN _parse_timestamp(dom, t) ELSE None

\* Whether, in recs from position at on, the record of every comment of the
\* posts from the k-th on carries the comment's own timestamp if it yields
\* one and the timestamp of its post otherwise.
RECURSIVE CommentDates(_, _, _, _, _)
CommentDates(dom, recs, posts, k, at) ==
    IF k > Len(posts) THEN TRUE
    ELSE LET q == posts[k]
             cs == DistinctComments(dom, q)
         IN  /\ \A n \in 1..Len(cs) :
                   recs[at + n].post_date =
                      IF OwnTimestamp(dom, cs[n]) # None
                      THEN OwnTimestamp(dom, cs[n])
                      ELSE PostTimestamp(dom, q)
             /\ CommentDates(dom, recs, posts, k + 1, at + Len(cs) + 1)

\* C9 as stated: the post_date of a comment record is the comment's own
\* timestamp when it yields one, and the timestamp of the parent post
\* whenever it does not, also when its time element cannot be parsed.
C9_AsStated ==
    Returned => CommentDates(arg.dom, result, PostsWithText(arg.dom), 1, 1)

-----------------------------------------------------------------------------
(* _parse_timestamp on generated time elements *)

TimeLexemes ==
    {"2025-03-22", "T", "14:30:00", "+01:00", "+0100", "Z", "stock"}

\* The datetime attribute: absent, empty, no date, a date, a UTC timestamp.
DatetimeAttrs ==
    {None, Some(<<>>), Some(<<"stock">>), Some(<<"2025-03-22">>),
     Some(<<"2025-03-22", "T", "14:30:00", "Z">>)}

TimeElements ==
    {<<TimeTag(0, a, t)>> :
        a \in DatetimeAttrs, t \in SeqsUpTo(TimeLexemes, MaxTimeText)}

InitTimestamp == InitUnit(Args(TimeElements, {None}), "timestamp")

CallParseTimestamp ==
    /\ pc = "timestamp"
    /\ result' = _parse_timestamp(arg.dom, 1)
    /\ pc' = "returned"
    /\ UNCHANGED <<inputs, urls, idx, html, page_records, all_records, raised,
                   fetched, exported, arg>>

NextTimestamp == CallParseTimestamp

SpecTimestamp == InitTimestamp /\ [][NextTimestamp]_vars

\* An ISO-8601 date, or date and time of day with at most one UTC
\* designator (Z or an offset) at its end.
IsISO8601(s) ==
    \/ Len(s) = 1 /\ s[1] \in Dates
    \/ /\ Len(s) \in {3, 4}
       /\ s[1] \in Dates /\ s[2] = "T" /\ s[3] \in Times
       /\ Len(s) = 4 => s[4] \in ColonOffsets \cup PlainOffsets \cup {"Z"}

\* C8 as stated: _parse_timestamp returns a valid datetime attribute
\* verbatim; otherwise the text parsed with the first format that matches,
\* with a literal Z appended only to the date-only and the offset-less
\* results, a date-only one at midnight; null when neither gives a value;
\* so every result that is not null is an ISO-8601 string.
C8_AsStated ==
    Returned =>
       LET val == arg.dom[1].attrs["datetime"]
           text == Strip(arg.dom[1].text)
           attrValid == /\ val # None
                        /\ Strip(val[1]) # <<>>
                        /\ fromisoformat_ok(ReplaceZ(val[1]))
           withOffset == strptime(text, Formats[1])
           naive == strptime(text, Formats[2])
           dateOnly == strptime(text, Formats[3])
       IN  /\ result =
                 IF attrValid THEN val
                 ELSE IF withOffset # None THEN Some(isoformat(withOffset[1]))
                 ELSE IF naive # None THEN Some(isoformat(naive[1]) \o <<"Z">>)
                 ELSE IF dateOnly # None
                      THEN Some(<<dateOnly[1].date, "T", "00:00:00", "Z">>)
                 ELSE None
           /\ result # None => IsISO8601(result[1])

-----------------------------------------------------------------------------
(* parse_posts_page on generated feeds *)

\* A post container without text of its own, a post matched by two
\* selectors, a post matched by the last selector only, a post of white
\* space only, a comment, and a paragraph that no selector matches.
FeedTemplates ==
    {Div(0, {"post"}, <<>>),
     Elem(0, "article", {"post", "feed-item"}, NoAttrs, <<"Tesla">>),
     Elem(0, "li", {"status"}, NoAttrs, <<"stock">>),
     Elem(0, "li", {"feed-item", "status"}, NoAttrs, <<" ">>),
     Elem(0, "li", {"comment"}, NoAttrs, <<"risk">>),
     Tag(0, "p", <<"etoro">>)}

InitFeed == InitUnit(Args(Docs(FeedTemplates, MaxFeedNodes), {None}), "posts")

SpecFeed == InitFeed /\ [][NextPosts]_vars

\* The place in post_selectors of the first selector that matches e, 0 when
\* none does.
SelectorRank(e) ==
    IF HasClass(e, "post") THEN 1
    ELSE IF HasClass(e, "feed-item") THEN 2
    ELSE IF HasClass(e, "status") THEN 3
    ELSE 0

\* How many of the three selectors match e.
SelectorCount(e) ==
    Cardinality({c \in {"post", "feed-item", "status"} : HasClass(e, c)})

\* The matched nodes, each once, by the first selector that matches them
\* and then by their place in the document.
FirstSeen(dom) ==
    SelectSeq(Indices(dom), LAMBDA j : SelectorRank(dom[j]) = 1)
      \o SelectSeq(Indices(dom), LAMBDA j : SelectorRank(dom[j]) = 2)
      \o SelectSeq(Indices(dom), LAMBDA j : SelectorRank(dom[j]) = 3)

HasVisibleText(dom, j) == GetText(dom, j, <<" ">>, TRUE) # <<>>

\* The post records of a result: those whose comment_text is null.
PostRecordsOf(recs) == SelectSeq(recs, LAMBDA r : r.comment_text = None)

\* C11: the post records that parse_posts_page returns are, in this order,
\* one for each matched node with visible text, the matched nodes taken
\* once each by selector order and then by document order, whatever the
\* number of selectors that match a node; a document with no matched node
\* gives the empty list.
C11_UniquePostsInOrder ==
    Returned =>
        LET posts == SelectSeq(FirstSeen(arg.dom),
                               LAMBDA j : HasVisibleText(arg.dom, j))
            recs == PostRecordsOf(result)
        IN  /\ Len(recs) = Len(posts)
            /\ \A k \in 1..Len(posts) :
                  recs[k].post_content = Some(PostBody(arg.dom, posts[k]))
            /\ FirstSeen(arg.dom) = <<>> => result = <<>>

\* C11 witness: a node matched by the last selector only stands in the
\* document before a node matched by two selectors, both with text; the
\* result holds two post records, that of the later node first.
C11_Witness ==
    /\ Returned
    /\ \E j, k \in 1..Len(arg.dom) :
          /\ j < k
          /\ SelectorRank(arg.dom[j]) = 3
          /\ SelectorRank(arg.dom[k]) = 1
          /\ SelectorCount(arg.dom[k]) = 2
          /\ HasVisibleText(arg.dom, j)
          /\ PostBody(arg.dom, j) # PostBody(arg.dom, k)
          /\ Len(PostRecordsOf(result)) = 2
          /\ PostRecordsOf(result)[1].post_content = Some(PostBody(arg.dom, k))
          /\ PostRecordsOf(result)[2].post_content = Some(PostBody(arg.dom, j))

====
